---- MODULE Spec2Model ----
(***************************************************************************)
(* Model of chess-llm: the ChessGame session (game.py) and the             *)
(* AsyncGameOrchestrator (async_orchestrator.py) that drives it.           *)
(*                                                                         *)
(* play_game / play_turn are one coroutine; an action of the model runs    *)
(* the code from one suspension point (an agent call in a worker thread,   *)
(* an asyncio.sleep) to the next.  pause(), resume() and stop() are plain  *)
(* methods that the hosting server calls between those points.             *)
(*                                                                         *)
(* The rules engine (python-chess) is outside the repository.  It is       *)
(* modelled by a small deterministic game: a position is the stack of      *)
(* moves pushed on the board, each side owns two moves, and the game is    *)
(* decided by its last two real moves.                                     *)
(***************************************************************************)
EXTENDS Integers, Sequences, FiniteSets, TLC

(* ------------------------------ bounds --------------------------------- *)
\* pushes on the board (moves and the passes of draw offers) in one game
MaxPlies == 2
\* answers of the agents in one game that are malformed or fail
MaxFaults == 3
\* messages of the lifecycle endpoints between two steps of the coroutine
MaxBroadcasts == 2
\* start requests the server handles
MaxStarts == 2
\* websockets that connect to the server
MaxClients == 2
\* broadcasts the server has in progress at a time
MaxSenders == 2

(* ------------------------- program constants --------------------------- *)
max_retries == 3
max_moves == 200

(* ------------------------------ strings -------------------------------- *)
None == "None"
NullMove == "0000"
WhiteMoves == {"e2e4", "g1f3"}
BlackMoves == {"e7e5", "g8f6"}
PromotionMove == "e7e8q"
AllMoves == WhiteMoves \cup BlackMoves
Keywords == {"REQUEST_DRAW", "RESIGN", "DRAW_ACCEPTED", "DRAW_REFUSED"}

\* str.upper() and str.lower() on the words the agents can produce
StrUpper(w) ==
    CASE w = "e2e4" -> "E2E4" [] w = "g1f3" -> "G1F3"
      [] w = "e7e5" -> "E7E5" [] w = "g8f6" -> "G8F6"
      [] w = "resign" -> "RESIGN" [] w = "Draw_Accepted" -> "DRAW_ACCEPTED"
      [] w = "xyz123" -> "XYZ123"
      [] OTHER -> w

StrLower(w) ==
    CASE w = "E2E4" -> "e2e4" [] w = "G1F3" -> "g1f3"
      [] w = "E7E5" -> "e7e5" [] w = "G8F6" -> "g8f6"
      [] w = "RESIGN" -> "resign" [] w = "REQUEST_DRAW" -> "request_draw"
      [] w = "DRAW_ACCEPTED" -> "draw_accepted" [] w = "Draw_Accepted" -> "draw_accepted"
      [] w = "DRAW_REFUSED" -> "draw_refused"
      [] w = "XYZ123" -> "xyz123"
      [] OTHER -> w

\* w[:4], the first four characters of a word
Prefix4(w) ==
    CASE w = "e7e8q" -> "e7e8"
      [] w = "xyz123" -> "xyz1"
      [] OTHER -> w

\* A text is its whitespace-delimited words plus whether whitespace surrounds it.
Text(ws) == [pad |-> FALSE, words |-> ws]
Padded(ws) == [pad |-> TRUE, words |-> ws]
strip(t) == [pad |-> FALSE, words |-> t.words]
\* an upper() that leaves the letters as they are
upper_CaseSensitive(t) == t
upper(t) == [pad |-> t.pad, words |-> [i \in DOMAIN t.words |-> StrUpper(t.words[i])]]

(* --------------------------- rules engine ------------------------------ *)
Other(side) == IF side = "white" THEN "black" ELSE "white"

\* the moves on the board's stack, the null moves of push_pass left out
Real(stack) == SelectSeq(stack, LAMBDA m : m # NullMove)

\* a board on which white is always to move
BoardTurn_AlwaysWhite(board) == "white"

\* chess.Board.turn: every push, null moves included, hands the move over
BoardTurn(board) == IF Len(board) % 2 = 0 THEN "white" ELSE "black"

\* the end state the engine reports for a position, "none" while play goes on:
\* it is decided by the last two real moves
BoardStatus(board) ==
    LET real == Real(board) IN
    IF Len(real) < 2 THEN "none"
    ELSE LET prev == real[Len(real) - 1]
             last == real[Len(real)] IN
         CASE prev = "g1f3" /\ last = "e7e5" -> "checkmate"
           [] prev = "e2e4" /\ last = "g1f3" -> "checkmate"
           [] prev = "e7e5" /\ last = "e2e4" -> "checkmate"
           [] prev = "e2e4" /\ last = "g8f6" -> "stalemate"
           [] prev = "g1f3" /\ last = "g8f6" -> "insufficient_material"
           [] prev = "g1f3" /\ last = "e2e4" -> "seventyfive_moves"
           [] prev = last -> "fivefold_repetition"
           [] OTHER -> "none"

BoardIsGameOver(board) == BoardStatus(board) # "none"

\* once both sides have moved, white can also promote a pawn
BoardLegalMoves(board) ==
    IF BoardStatus(board) \in {"checkmate", "stalemate"} THEN {}
    ELSE IF BoardTurn(board) = "white"
    THEN WhiteMoves \cup (IF Len(Real(board)) >= 2 THEN {PromotionMove} ELSE {})
    ELSE BlackMoves

(* ------------------------------ ChessGame ------------------------------ *)
\* draw_requested is an attribute the orchestrator adds to the game object; every
\* read of it is guarded by hasattr, so the absent attribute reads as FALSE.
NewGame ==
    [board |-> <<>>, game_history |-> <<>>, move_times |-> <<>>,
     resigned |-> None, draw_accepted |-> FALSE, draw_requested |-> FALSE]

get_board_fen(g) == [placement |-> Real(g.board), turn |-> BoardTurn(g.board)]

is_game_over(g) == BoardIsGameOver(g.board) \/ g.resigned # None \/ g.draw_accepted

get_game_result(g) ==
    IF g.resigned # None THEN "resignation"
    ELSE IF g.draw_accepted THEN "draw_accepted"
    ELSE IF BoardStatus(g.board) = "none" THEN None
    ELSE BoardStatus(g.board)

get_legal_moves(g) == BoardLegalMoves(g.board)

\* chess.Move.from_uci raises ValueError for anything that is not a UCI move;
\* "0000" is the UCI of the null move
IsUci(s) == s \in AllMoves \cup {PromotionMove, NullMove}

\* make_move that pushes the move on the board and forgets game_history
make_move_NoHistory(g, move_uci, move_time) ==
    IF IsUci(move_uci) /\ move_uci \in BoardLegalMoves(g.board)
    THEN [ok |-> TRUE,
          game |-> [g EXCEPT !.board = Append(@, move_uci),
                             !.move_times = Append(@, move_time)]]
    ELSE [ok |-> FALSE, game |-> g]

make_move(g, move_uci, move_time) ==
    IF IsUci(move_uci) /\ move_uci \in BoardLegalMoves(g.board)
    THEN [ok |-> TRUE,
          game |-> [g EXCEPT !.board = Append(@, move_uci),
                             !.game_history = Append(@, move_uci),
                             !.move_times = Append(@, move_time)]]
    ELSE [ok |-> FALSE, game |-> g]

get_current_player(g) == BoardTurn(g.board)

get_game_state(g) ==
    [fen |-> get_board_fen(g),
     current_player |-> get_current_player(g),
     legal_moves |-> get_legal_moves(g),
     game_over |-> is_game_over(g),
     result |-> IF is_game_over(g) THEN get_game_result(g) ELSE None,
     move_history |-> g.game_history,
     move_count |-> Len(g.game_history)]

\* an undo_move that takes the last move off the board and keeps the lists
undo_move_KeepsLists(g) ==
    IF Len(g.game_history) > 0
    THEN [ok |-> TRUE, game |-> [g EXCEPT !.board = SubSeq(@, 1, Len(@) - 1)]]
    ELSE [ok |-> FALSE, game |-> g]

\* undo_move: board.pop() takes the last push off the board's stack, whatever it is
undo_move(g) ==
    IF Len(g.game_history) > 0
    THEN [ok |-> TRUE,
          game |-> [g EXCEPT !.board = SubSeq(@, 1, Len(@) - 1),
                             !.game_history = SubSeq(@, 1, Len(@) - 1),
                             !.move_times = SubSeq(@, 1, Len(@) - 1)]]
    ELSE [ok |-> FALSE, game |-> g]

\* reset_game: the attribute draw_requested is not one it knows about
reset_game(g) == [NewGame EXCEPT !.draw_requested = g.draw_requested]

\* a draw offer that leaves the turn with the offering side
push_pass_NoTurn(g) == g

\* board.push_pass(): a null move on the stack, the other side is to move
push_pass(g) == [g EXCEPT !.board = Append(@, NullMove)]

(* ------------------------- AsyncGameOrchestrator ----------------------- *)
_get_winner(g) ==
    IF ~is_game_over(g) THEN None
    ELSE LET result == get_game_result(g) IN
         IF result = "checkmate" THEN Other(get_current_player(g))
         ELSE IF result \in {"stalemate", "insufficient_material",
                             "seventyfive_moves", "fivefold_repetition"} THEN "draw"
         ELSE None

VARIABLES
    game,            \* self.game: the ChessGame session
    move_times,      \* self.move_times: latencies per side, orchestrator overhead
    is_running,      \* self.is_running
    is_paused,       \* self.is_paused
    callbacks,       \* which of move_callback, log_callback, state_callback are set
    pc,              \* where the play_game coroutine is suspended
    move_count,      \* play_game: move_count
    winner,          \* play_game: winner
    turn_result,     \* play_game: turn_result, what the last play_turn returned
    current_player,  \* play_turn: current_player
    game_state,      \* play_turn: game_state, the snapshot taken for the turn
    draw_requested,  \* play_turn: draw_requested, read once when the turn starts
    attempt,         \* play_turn: attempt
    elapsed,         \* time.time() - orchestrator_start
    request,         \* the messages of the agent call in flight; play_turn's response
                     \* lives across a suspension only inside the corrective prompt
    calls,           \* send_message calls made by the current turn
    malformed,       \* replies the current turn has found invalid
    faults,          \* malformed answers and failed calls of the game so far
    emitted,         \* notifications of the coroutine's last step and of the server since, in order
    returned,        \* what a call made by a caller other than play_game returned
    game_log,        \* GameOrchestrator.game_log of the synchronous orchestrator
    orchestrators,   \* server: the orchestrator registered for the game id, or None
    game_tasks,      \* server: the task registered for the game id, or None
    tasks,           \* server: the play_game task each start request created
    handlers,        \* server: where each start_llm_game or reset_game request is
                     \* suspended
    active_connections, \* server: the websockets in the connection registry
    broadcasts,      \* server: the broadcasts in progress
    websockets       \* server: where each websocket_endpoint is, and whether the
                     \* browser has closed the websocket

vars == <<game, move_times, is_running, is_paused, callbacks, pc, move_count, winner,
          turn_result, current_player, game_state, draw_requested, attempt,
          elapsed, request, calls, malformed, faults, emitted, returned,
          game_log, orchestrators, game_tasks, tasks, handlers, active_connections,
          broadcasts, websockets>>

\* the state of the synchronous orchestrator and of the server's registries
aux == <<game_log, orchestrators, game_tasks, tasks, handlers, active_connections,
         broadcasts, websockets>>

\* locals of play_game and play_turn
locals == <<move_count, winner, turn_result, current_player, game_state,
            draw_requested, attempt, elapsed, request, calls, malformed>>

\* what an agent can answer
Responses ==
    {Text(<<m>>) : m \in AllMoves}
      \cup {Text(<<k>>) : k \in Keywords}
      \cup {Padded(<<"E2E4", "xyz123">>), Padded(<<"G8F6">>), Padded(<<"resign">>),
            Text(<<"xyz123">>), Text(<<>>)}
\* the latency an agent reports with its answer; the call itself takes one tick
\* of the clock, and an agent may report more than the call took (the mock
\* agent reports a random latency)
ResponseTime(r) == IF r.pad THEN 2 ELSE 1
CallbackSets ==
    {[move |-> TRUE, log |-> TRUE, state |-> TRUE],
     [move |-> TRUE, log |-> FALSE, state |-> TRUE]}

AllCallbacks == [move |-> TRUE, log |-> TRUE, state |-> TRUE]

\* the requests to /api/game/start, the websockets and the broadcasts, by number
StartRequests == 1..MaxStarts
ResetRequest == 0
\* a registry without an entry for the game id "default"
NoEntry == 0
NewRequest == [at |-> "new"]
Clients == 1..MaxClients
Broadcasts == 1..MaxSenders
NoBroadcast == [at |-> "idle"]

NoRequest == [kind |-> "none"]
NoneResult == [none |-> TRUE]
\* a play_game that takes no turn result for an error
IsError_Never(res) == FALSE
IsError(res) == "error" \in DOMAIN res

\* notification payloads
Log(msg, level) ==
    IF callbacks.log THEN <<[chan |-> "log", msg |-> msg, level |-> level]>> ELSE <<>>
MoveEvent_Silent(player, move, g) == <<>>
MoveEvent(player, move, g) ==
    IF callbacks.move
    THEN <<[chan |-> "move", player |-> player, move |-> move, fen |-> get_board_fen(g)]>>
    ELSE <<>>
StateEvent(g) ==
    IF callbacks.state
    THEN <<[chan |-> "state", game_over |-> is_game_over(g),
            result |-> get_game_state(g).result, move_count |-> Len(g.game_history)]>>
    ELSE <<>>
FinalStateEvent(g, w, result) ==
    IF callbacks.state
    THEN <<[chan |-> "state", game_over |-> is_game_over(g), result |-> result,
            move_count |-> Len(g.game_history), winner |-> w]>>
    ELSE <<>>

Init ==
    /\ game = NewGame
    /\ move_times = [white |-> <<>>, black |-> <<>>, orchestrator |-> 0]
    /\ is_running = FALSE
    /\ is_paused = FALSE
    /\ callbacks \in CallbackSets
    /\ pc = "idle"
    /\ move_count = 0
    /\ winner = None
    /\ turn_result = NoneResult
    /\ current_player = None
    /\ game_state = get_game_state(NewGame)
    /\ draw_requested = FALSE
    /\ attempt = 0
    /\ elapsed = 0
    /\ request = NoRequest
    /\ calls = 0
    /\ malformed = 0
    /\ faults = 0
    /\ emitted = <<>>
    /\ returned = NoRequest
    /\ game_log = <<>>
    /\ orchestrators = NoEntry
    /\ game_tasks = NoEntry
    /\ tasks = [i \in StartRequests |-> "none"]
    /\ handlers = [i \in StartRequests \cup {ResetRequest} |-> NewRequest]
    /\ active_connections = <<>>
    /\ broadcasts = [b \in Broadcasts |-> NoBroadcast]
    /\ websockets = [c \in Clients |-> [at |-> "new", closed |-> FALSE]]

LastMove(history) == IF history = <<>> THEN None ELSE history[Len(history)]

\* the messages play_turn builds once per turn (_get_move_prompt)
MovePrompt(state, last_opponent_move, draw) ==
    [kind |-> "move_prompt", fen |-> state.fen, legal_moves |-> state.legal_moves,
     last_opponent_move |-> last_opponent_move, draw_requested |-> draw]

\* the messages of _send_invalid_move_prompt
InvalidMovePrompt(invalid_response, state, last_opponent_move) ==
    [kind |-> "invalid_move_prompt", invalid_response |-> invalid_response,
     fen |-> state.fen, legal_moves |-> state.legal_moves,
     last_opponent_move |-> last_opponent_move]

\* play_game after its loop: the special end conditions and the closing log events
Finish(g, mc, w, res, mt, em) ==
    LET special ==
            IF g.resigned # None
            THEN FinalStateEvent(g, Other(g.resigned), "resignation")
            ELSE IF g.draw_accepted THEN FinalStateEvent(g, "draw", "agreement")
            ELSE <<>>
    IN  /\ game' = g
        /\ move_times' = mt
        /\ is_running' = FALSE
        /\ pc' = "done"
        /\ move_count' = mc
        /\ winner' = IF g.resigned # None THEN Other(g.resigned) ELSE w
        /\ turn_result' = res
        /\ emitted' = em \o special \o Log("Game completed!", "info")
                         \o Log("Total moves", "info") \o Log("White avg time", "info")
                         \o Log("Black avg time", "info")
                         \o Log("Orchestrator total time", "info")

\* play_game from the return of play_turn to the next suspension point
AfterTurn(g, run, res, mt, em) ==
    IF res = NoneResult THEN Finish(g, move_count, winner, res, mt, em)
    ELSE IF IsError(res)
    THEN Finish(g, move_count, winner, res, mt,
                em \o Log("Game ended due to error", "error"))
    ELSE IF is_game_over(g)
    THEN LET result == get_game_result(g)
             w == _get_winner(g)
         IN  IF callbacks.log /\ w = None
             THEN \* winner.capitalize() on None: AttributeError leaves play_game
                  /\ game' = g
                  /\ move_times' = mt
                  /\ is_running' = run
                  /\ pc' = "crashed"
                  /\ move_count' = move_count + 1
                  /\ winner' = w
                  /\ turn_result' = res
                  /\ emitted' = em
             ELSE Finish(g, move_count + 1, w, res, mt,
                         em \o (IF w = "draw" THEN Log("Game ended in a draw", "info")
                                ELSE Log("Game over! wins", "info"))
                            \o FinalStateEvent(g, w, result))
    ELSE \* asyncio.sleep(0.5) between turns
         /\ game' = g
         /\ move_times' = mt
         /\ is_running' = run
         /\ pc' = "loop"
         /\ move_count' = move_count + 1
         /\ winner' = winner
         /\ turn_result' = res
         /\ emitted' = em

\* play_turn returns res: attempt and the clock of the turn go out of scope
Return(g, run, res, mt, em) ==
    /\ AfterTurn(g, run, res, mt, em)
    /\ attempt' = 0
    /\ elapsed' = 0
    /\ request' = NoRequest
    /\ calls' = 0
    /\ malformed' = 0
    /\ UNCHANGED <<current_player, game_state, draw_requested>>

\* the agent call that opens an attempt
SendMessage(g, run, mt, em, now, n) ==
    /\ attempt' = n
    /\ pc' = "agent"
    /\ calls' = calls + 1
    /\ request' = MovePrompt(game_state, LastMove(game_state.move_history), draw_requested)
    /\ emitted' = em \o Log("is thinking", "info")
    /\ game' = g
    /\ move_times' = mt
    /\ is_running' = run
    /\ elapsed' = now
    /\ UNCHANGED <<move_count, winner, turn_result, current_player, game_state,
                   draw_requested, malformed>>

\* the for loop goes to its next iteration, or ends and play_turn returns None
NextAttempt(g, mt, em, now) ==
    IF attempt + 1 < max_retries
    THEN SendMessage(g, is_running, mt, em, now, attempt + 1)
    ELSE Return(g, is_running, NoneResult, mt, em)

\* play_turn once it is past its entry checks and the pause loop
StartTurn(run, em) ==
    LET state == get_game_state(game) IN
    /\ current_player' = get_current_player(game)
    /\ game_state' = state
    /\ draw_requested' = game.draw_requested
    /\ attempt' = 0
    /\ elapsed' = 0
    /\ request' = MovePrompt(state, LastMove(game.game_history), game.draw_requested)
    /\ calls' = 1
    /\ malformed' = 0
    /\ pc' = "agent"
    /\ is_running' = run
    /\ emitted' = em \o Log("is thinking", "info")
    /\ UNCHANGED <<game, move_times, move_count, winner, turn_result>>

\* play_turn from its entry
PlayTurnEntry(run, em) ==
    IF is_game_over(game) \/ ~run
    THEN /\ AfterTurn(game, run, NoneResult, move_times, em)
         /\ UNCHANGED <<current_player, game_state, draw_requested, attempt,
                        elapsed, request, calls, malformed>>
    ELSE IF is_paused
    THEN /\ pc' = "pause_wait"
         /\ is_running' = run
         /\ emitted' = em
         /\ UNCHANGED <<game, move_times, locals>>
    ELSE StartTurn(run, em)

\* a while loop without the ceiling on move_count
LoopHead_NoCeiling(run, em) ==
    IF run /\ ~is_game_over(game)
    THEN PlayTurnEntry(run, em)
    ELSE /\ Finish(game, move_count, winner, turn_result, move_times, em)
         /\ UNCHANGED <<current_player, game_state, draw_requested, attempt,
                        elapsed, request, calls, malformed>>

\* the head of play_game's while loop
LoopHead(run, em) ==
    IF run /\ move_count < max_moves /\ ~is_game_over(game)
    THEN PlayTurnEntry(run, em)
    ELSE /\ Finish(game, move_count, winner, turn_result, move_times, em)
         /\ UNCHANGED <<current_player, game_state, draw_requested, attempt,
                        elapsed, request, calls, malformed>>

(* ------------------------------- actions ------------------------------- *)
\* play_game is called (once per orchestrator, as the server does)
PlayGame ==
    /\ pc = "idle"
    /\ LoopHead(TRUE, Log("Game started!", "info") \o StateEvent(game))
    /\ UNCHANGED <<is_paused, callbacks, faults, returned>>
    /\ UNCHANGED aux

\* the pacing sleep between turns ends and the loop comes round
NextTurn ==
    /\ pc = "loop"
    /\ LoopHead(is_running, <<>>)
    /\ UNCHANGED <<is_paused, callbacks, faults, returned>>
    /\ UNCHANGED aux

\* a pause loop that does not look at is_running when it wakes
PauseTick_NoStopCheck ==
    /\ pc = "pause_wait"
    /\ IF is_paused
       THEN UNCHANGED <<game, move_times, is_running, pc, locals, emitted>>
       ELSE StartTurn(is_running, <<>>)
    /\ UNCHANGED <<is_paused, callbacks, faults, returned>>
    /\ UNCHANGED aux

\* a pause loop that only a stop() can end
PauseTick_IgnoresResume ==
    /\ pc = "pause_wait"
    /\ IF ~is_running
       THEN /\ AfterTurn(game, is_running, NoneResult, move_times, <<>>)
            /\ UNCHANGED <<current_player, game_state, draw_requested, attempt,
                           elapsed, request, calls, malformed>>
       ELSE UNCHANGED <<game, move_times, is_running, pc, locals, emitted>>
    /\ UNCHANGED <<is_paused, callbacks, faults, returned>>
    /\ UNCHANGED aux

\* one asyncio.sleep(0.1) of play_turn's pause loop ends
PauseTick ==
    /\ pc = "pause_wait"
    /\ IF ~is_running
       THEN /\ AfterTurn(game, is_running, NoneResult, move_times, <<>>)
            /\ UNCHANGED <<current_player, game_state, draw_requested, attempt,
                           elapsed, request, calls, malformed>>
       ELSE IF is_paused
       THEN UNCHANGED <<game, move_times, is_running, pc, locals, emitted>>
       ELSE StartTurn(is_running, <<>>)
    /\ UNCHANGED <<is_paused, callbacks, faults, returned>>
    /\ UNCHANGED aux

\* str.split()[0].lower() of the parsed text, "" for the empty text
ExtractMove(response_text) ==
    IF response_text.words = <<>> THEN "" ELSE StrLower(response_text.words[1])

\* the branch of play_turn's if-chain that the raw reply r takes
Interpret(r, legal_moves, draw) ==
    LET response_text == upper(strip(r))
        move == ExtractMove(response_text)
    IN  IF response_text = Text(<<"REQUEST_DRAW">>) THEN [kind |-> "REQUEST_DRAW"]
        ELSE IF response_text = Text(<<"RESIGN">>) THEN [kind |-> "RESIGN"]
        ELSE IF response_text = Text(<<"DRAW_ACCEPTED">>) /\ draw
        THEN [kind |-> "DRAW_ACCEPTED"]
        ELSE IF response_text = Text(<<"DRAW_REFUSED">>) /\ draw
        THEN [kind |-> "DRAW_REFUSED"]
        ELSE IF move \in legal_moves THEN [kind |-> "move", move |-> move]
        ELSE [kind |-> "invalid", move |-> move]

\* a RESIGN branch that records the resignation and goes on to the next attempt
Resign_GoesOn(rt, mt, now) ==
    NextAttempt([game EXCEPT !.resigned = current_player], mt,
                Log("resigns!", "info"), now)

\* the RESIGN branch of play_turn: the game is marked and the turn returns
Resign(rt, mt, now) ==
    Return([game EXCEPT !.resigned = current_player], FALSE,
           [player |-> current_player, action |-> "resign", response_time |-> rt],
           mt, Log("resigns!", "info"))

\* a ledger that books the latency on the opponent's list
RecordLatency_WrongSide(mt, player, rt) == [mt EXCEPT ![Other(player)] = Append(@, rt)]

\* self.move_times[current_player].append(response_time)
RecordLatency(mt, player, rt) == [mt EXCEPT ![player] = Append(@, rt)]

\* play_turn handles the reply (r, rt) of the attempt's send_message
Dispatch(r, rt) ==
    LET now == elapsed + 1
        mt == [move_times EXCEPT !.orchestrator = @ + (now - rt)]
        action == Interpret(r, game_state.legal_moves, draw_requested)
    IN
    CASE action.kind = "REQUEST_DRAW" ->
            Return(push_pass([game EXCEPT !.draw_requested = TRUE]), is_running,
                   [player |-> current_player, action |-> "draw_offer",
                    response_time |-> rt],
                   mt, Log("offers a draw", "info"))
         [] action.kind = "RESIGN" -> Resign(rt, mt, now)
         [] action.kind = "DRAW_ACCEPTED" ->
            Return([game EXCEPT !.draw_accepted = TRUE], FALSE,
                   [player |-> current_player, action |-> "draw_accepted",
                    response_time |-> rt],
                   mt, Log("Draw accepted!", "info"))
         [] action.kind = "DRAW_REFUSED" ->
            NextAttempt([game EXCEPT !.draw_requested = FALSE], mt,
                        Log("refuses the draw", "info"), now)
         [] action.kind = "move" ->
            LET made == make_move(game, action.move, rt) IN
            IF made.ok
            THEN LET g == [made.game EXCEPT !.draw_requested = FALSE] IN
                 Return(g, is_running,
                        [player |-> current_player, move |-> action.move,
                         response_time |-> rt, board_fen |-> get_board_fen(g)],
                        RecordLatency(mt, current_player, rt),
                        Log("plays", "info") \o MoveEvent(current_player, action.move, g)
                            \o StateEvent(g))
            ELSE NextAttempt(game, mt, <<>>, now)
         [] action.kind = "invalid" ->
            IF attempt < max_retries - 1
            THEN \* _send_invalid_move_prompt: a second agent call in the same attempt
                 /\ pc' = "corrective"
                 /\ calls' = calls + 1
                 /\ malformed' = malformed + 1
                 /\ request' = InvalidMovePrompt(r, game_state,
                                                 LastMove(game_state.move_history))
                 /\ emitted' = Log("Invalid move", "warning")
                 /\ move_times' = mt
                 /\ elapsed' = now
                 /\ UNCHANGED <<game, is_running, move_count, winner, turn_result,
                                current_player, game_state, draw_requested, attempt>>
            ELSE Return(game, is_running,
                        [error |-> "Max retries reached", player |-> current_player],
                        mt,
                        Log("Invalid move", "warning")
                            \o Log("failed to make valid move", "error"))

\* the send_message of an attempt returns
AgentReply ==
    /\ pc = "agent"
    /\ \E r \in Responses :
          LET kind == Interpret(r, game_state.legal_moves, draw_requested).kind IN
          /\ kind \in {"move", "REQUEST_DRAW"} => Len(game.board) < MaxPlies
          /\ kind = "invalid" => faults < MaxFaults
          /\ faults' = IF kind = "invalid" THEN faults + 1 ELSE faults
          /\ Dispatch(r, ResponseTime(r))
    /\ UNCHANGED <<is_paused, callbacks, returned>>
    /\ UNCHANGED aux

\* a failed agent call that ends the turn at once, whatever the attempt
AgentRaise_NoRetry ==
    /\ pc \in {"agent", "corrective"}
    /\ faults < MaxFaults
    /\ faults' = faults + 1
    /\ Return(game, is_running,
              [error |-> "Exception during turn", player |-> current_player],
              move_times, Log("Error during turn", "error"))
    /\ UNCHANGED <<is_paused, callbacks, returned>>
    /\ UNCHANGED aux

\* an agent call (of an attempt or of a corrective prompt) raises
AgentRaise ==
    /\ pc \in {"agent", "corrective"}
    /\ faults < MaxFaults
    /\ faults' = faults + 1
    /\ IF attempt < max_retries - 1
       THEN /\ pc' = "backoff"
            /\ emitted' = Log("Error during turn", "error")
            /\ elapsed' = elapsed + 1
            /\ request' = NoRequest
            /\ UNCHANGED <<game, move_times, is_running, move_count, winner,
                           turn_result, current_player, game_state, draw_requested,
                           attempt, calls, malformed>>
       ELSE /\ Return(game, is_running,
                      [error |-> "Exception during turn", player |-> current_player],
                      move_times, Log("Error during turn", "error"))
    /\ UNCHANGED <<is_paused, callbacks, returned>>
    /\ UNCHANGED aux

\* the send_message of _send_invalid_move_prompt returns: its reply r is bound to
\* response, the for loop goes on, and line 194 rebinds response to the reply of
\* the next send_message before anything reads it
CorrectiveReply ==
    /\ pc = "corrective"
    /\ \E r \in Responses :
          NextAttempt(game, move_times, <<>>, elapsed + 1)
    /\ UNCHANGED <<is_paused, callbacks, faults, returned>>
    /\ UNCHANGED aux

\* asyncio.sleep(1) after a failed agent call ends
Backoff ==
    /\ pc = "backoff"
    /\ NextAttempt(game, move_times, <<>>, elapsed + 1)
    /\ UNCHANGED <<is_paused, callbacks, faults, returned>>
    /\ UNCHANGED aux

pause ==
    /\ is_paused' = TRUE
    /\ UNCHANGED <<game, move_times, is_running, callbacks, pc, locals, faults, emitted, returned>>
    /\ UNCHANGED aux

resume ==
    /\ is_paused' = FALSE
    /\ UNCHANGED <<game, move_times, is_running, callbacks, pc, locals, faults, emitted, returned>>
    /\ UNCHANGED aux

stop ==
    /\ is_running' = FALSE
    /\ is_paused' = FALSE
    /\ UNCHANGED <<game, move_times, callbacks, pc, locals, faults, emitted, returned>>
    /\ UNCHANGED aux

Next ==
    \/ PlayGame
    \/ NextTurn
    \/ PauseTick
    \/ AgentReply
    \/ AgentRaise
    \/ CorrectiveReply
    \/ Backoff
    \/ pause
    \/ resume
    \/ stop

Spec == Init /\ [][Next]_vars

(* ------------------------ callbacks that raise ------------------------- *)
\* the send_message of an attempt returns a legal move, make_move applies it, and
\* one of the callbacks awaited at lines 246-260 raises: the except of line 283
\* takes over. When it is log_callback that raises, the log call of the except
\* raises as well and the exception leaves play_turn and play_game.
CallbackRaises ==
    /\ pc = "agent"
    /\ Len(game.board) < MaxPlies
    /\ faults < MaxFaults
    /\ faults' = faults + 1
    /\ \E r \in Responses, which \in {"log", "move", "state"} :
          LET rt == ResponseTime(r)
              now == elapsed + 1
              action == Interpret(r, game_state.legal_moves, draw_requested)
              made == make_move(game, action.move, rt)
              g == [made.game EXCEPT !.draw_requested = FALSE]
              mt == RecordLatency([move_times EXCEPT !.orchestrator = @ + (now - rt)],
                                  current_player, rt)
              sent == IF which = "move" THEN Log("plays", "info")
                      ELSE Log("plays", "info") \o MoveEvent(current_player, action.move, g)
          IN
          /\ callbacks[which]
          /\ action.kind = "move"
          /\ made.ok
          /\ IF which = "log"
             THEN /\ game' = g
                  /\ move_times' = mt
                  /\ pc' = "crashed"
                  /\ emitted' = <<>>
                  /\ elapsed' = now
                  /\ request' = NoRequest
                  /\ UNCHANGED <<is_running, move_count, winner, turn_result,
                                 current_player, game_state, draw_requested, attempt,
                                 calls, malformed>>
             ELSE IF attempt < max_retries - 1
             THEN /\ game' = g
                  /\ move_times' = mt
                  /\ pc' = "backoff"
                  /\ emitted' = sent \o Log("Error during turn", "error")
                  /\ elapsed' = now
                  /\ request' = NoRequest
                  /\ UNCHANGED <<is_running, move_count, winner, turn_result,
                                 current_player, game_state, draw_requested, attempt,
                                 calls, malformed>>
             ELSE Return(g, is_running,
                         [error |-> "Exception during turn", player |-> current_player],
                         mt, sent \o Log("Error during turn", "error"))
    /\ UNCHANGED <<is_paused, callbacks, returned>>
    /\ UNCHANGED aux

NextCallbacks ==
    \/ PlayGame
    \/ NextTurn
    \/ PauseTick
    \/ AgentReply
    \/ AgentRaise
    \/ CorrectiveReply
    \/ Backoff
    \/ CallbackRaises
    \/ pause
    \/ resume
    \/ stop

SpecCallbacks == Init /\ [][NextCallbacks]_vars

(* --------------------- agents that never play a move ------------------ *)
\* the send_message of an attempt returns one of the keywords, never a move, so
\* the game can go on for as long as play_game lets it; the agent reports as its
\* latency the time the turn has taken so far
AgentReplyNoMove ==
    /\ pc = "agent"
    /\ \E r \in Responses :
          /\ ~r.pad
          /\ Interpret(r, game_state.legal_moves, draw_requested).kind
                \in {"REQUEST_DRAW", "DRAW_ACCEPTED", "DRAW_REFUSED", "RESIGN"}
          /\ Dispatch(r, elapsed + 1)
    /\ UNCHANGED <<is_paused, callbacks, faults, returned>>
    /\ UNCHANGED aux

NextCeiling ==
    \/ PlayGame
    \/ NextTurn
    \/ PauseTick
    \/ AgentReplyNoMove
    \/ pause
    \/ resume
    \/ stop

\* every agent call returns, every sleep ends, a pause is followed by resume() or
\* stop(), and the pause loop wakes up while the orchestrator is not paused
FairCeiling ==
    /\ WF_vars(NextTurn)
    /\ WF_vars(AgentReplyNoMove)
    /\ SF_vars(PauseTick)
    /\ WF_vars((resume \/ stop) /\ is_paused)

SpecCeiling == Init /\ [][NextCeiling]_vars /\ FairCeiling

(* ------------------- other users of the same objects ------------------- *)
\* the coroutine of play_game is not running: not started, returned, or raised
NoCoroutine == pc \in {"idle", "done", "crashed"}

\* a play_turn that announces the turn before its entry check
PlayTurn_Announces ==
    /\ NoCoroutine
    /\ is_game_over(game) \/ ~is_running
    /\ returned' = NoneResult
    /\ emitted' = emitted \o Log("is thinking", "info")
    /\ UNCHANGED <<game, move_times, is_running, is_paused, callbacks, pc, locals,
                   faults>>
    /\ UNCHANGED aux

\* a caller other than play_game awaits play_turn() on the orchestrator; where no
\* play_game runs is_running is False (IdleNotRunning), so the call takes the
\* return of its first line
PlayTurn ==
    /\ NoCoroutine
    /\ is_game_over(game) \/ ~is_running
    /\ returned' = NoneResult
    /\ UNCHANGED <<game, move_times, is_running, is_paused, callbacks, pc, locals,
                   faults, emitted>>
    /\ UNCHANGED aux

NextClient == Next \/ PlayTurn

SpecClient == Init /\ [][NextClient]_vars

(* ------------------- callers of the ChessGame itself ------------------- *)
\* what a caller can pass to make_move, and the move times it can pass
MoveTexts == AllMoves \cup {NullMove, "xyz123", "E2E4", ""}
MoveTimes == {0, 1}

\* a call on the game: its name, what it returned, and the game it was made on
Called(name, ok, g) == [call |-> name, ok |-> ok, before |-> g]

CallMakeMove(move_uci, move_time) ==
    LET made == make_move(game, move_uci, move_time) IN
    /\ pc = "idle"
    /\ made.ok => Len(game.board) < MaxPlies
    /\ game' = made.game
    /\ returned' = Called("make_move", made.ok, game)
    /\ UNCHANGED <<move_times, is_running, is_paused, callbacks, pc, locals, faults,
                   emitted>>
    /\ UNCHANGED aux

CallUndoMove ==
    /\ pc = "idle"
    /\ game' = undo_move(game).game
    /\ returned' = Called("undo_move", undo_move(game).ok, game)
    /\ UNCHANGED <<move_times, is_running, is_paused, callbacks, pc, locals, faults,
                   emitted>>
    /\ UNCHANGED aux

CallResetGame ==
    /\ pc = "idle"
    /\ game' = reset_game(game)
    /\ returned' = Called("reset_game", TRUE, game)
    /\ UNCHANGED <<move_times, is_running, is_paused, callbacks, pc, locals, faults,
                   emitted>>
    /\ UNCHANGED aux

\* the draw offer of the orchestrator's REQUEST_DRAW branch, as far as the game
\* is concerned
OfferDraw ==
    /\ pc = "idle"
    /\ Len(game.board) < MaxPlies
    /\ game' = push_pass([game EXCEPT !.draw_requested = TRUE])
    /\ returned' = Called("draw_offer", TRUE, game)
    /\ UNCHANGED <<move_times, is_running, is_paused, callbacks, pc, locals, faults,
                   emitted>>
    /\ UNCHANGED aux

NextGame ==
    \/ \E move_uci \in MoveTexts, move_time \in MoveTimes : CallMakeMove(move_uci, move_time)
    \/ CallUndoMove
    \/ CallResetGame
    \/ OfferDraw

SpecGame == Init /\ [][NextGame]_vars

(* ----------------------- GameOrchestrator (sync) ----------------------- *)
\* what an agent of the synchronous orchestrator can answer, the latency it can
\* report, and what the referee agent can do
SyncResponses ==
    {Text(<<m>>) : m \in AllMoves \cup {PromotionMove}}
      \cup {Padded(<<"e2e4", "xyz123">>), Text(<<"xyz123">>), Text(<<>>)}
SyncLatencies == {1, 2}
Verdicts == {"VALID", "INVALID", "unclear", "raises"}

\* move_response.strip().split()[0][:4], "" for blank text
SyncExtractMove(move_response) ==
    IF move_response.words = <<>> THEN "" ELSE Prefix4(move_response.words[1])

\* _validate_move_with_referee: the local check, then the referee's word
ValidateMove(move, legal_moves, verdict) ==
    IF move \notin legal_moves
    THEN [is_valid |-> FALSE, message |-> "not in the list of legal moves"]
    ELSE CASE verdict = "VALID" -> [is_valid |-> TRUE, message |-> "validated"]
           [] verdict = "INVALID" -> [is_valid |-> FALSE, message |-> "INVALID"]
           [] verdict = "unclear" -> [is_valid |-> TRUE, message |-> "validated locally"]
           [] OTHER -> [is_valid |-> TRUE, message |-> "local validation only"]

\* a turn_log that names the opponent as the player
TurnLog_Opponent(player, move, response_time, g, validation) ==
    [player |-> Other(player), move |-> move, response_time |-> response_time,
     board_fen |-> get_board_fen(g), validation |-> validation]

TurnLog(player, move, response_time, g, validation) ==
    [player |-> player, move |-> move, response_time |-> response_time,
     board_fen |-> get_board_fen(g), validation |-> validation]

\* play_turn on a game that is over
SyncPlayTurnOver ==
    /\ pc = "idle"
    /\ is_game_over(game)
    /\ returned' = NoneResult
    /\ UNCHANGED <<game, move_times, is_running, is_paused, callbacks, pc, locals,
                   faults, emitted>>
    /\ UNCHANGED aux

\* play_turn whose agent answers; the referee is asked when the move passes the
\* local check
SyncPlayTurn(move_response, response_time, verdict) ==
    LET player == get_current_player(game)
        state == get_game_state(game)
        move == SyncExtractMove(move_response)
        checked == ValidateMove(move, state.legal_moves, verdict)
        made == make_move(game, move, response_time)
        turn_log == TurnLog(player, move, response_time, made.game, checked.message)
    IN
    /\ pc = "idle"
    /\ ~is_game_over(game)
    /\ IF checked.is_valid
       THEN IF made.ok
            THEN /\ Len(game.board) < MaxPlies
                 /\ game' = made.game
                 /\ move_times' = RecordLatency(move_times, player, response_time)
                 /\ game_log' = Append(game_log, turn_log)
                 /\ returned' = turn_log
            ELSE /\ returned' = [error |-> "Invalid move according to game logic",
                                 player |-> player, move |-> move]
                 /\ UNCHANGED <<game, move_times, game_log>>
       ELSE /\ returned' = [error |-> "Invalid move according to referee",
                            player |-> player, move |-> move,
                            legal_moves |-> state.legal_moves]
            /\ UNCHANGED <<game, move_times, game_log>>
    /\ UNCHANGED <<is_running, is_paused, callbacks, pc, locals, faults, emitted>>
    /\ UNCHANGED <<orchestrators, game_tasks, tasks, handlers, active_connections,
                   broadcasts, websockets>>

\* play_turn whose agent call raises (no agent set up, transport error)
SyncPlayTurnRaises ==
    /\ pc = "idle"
    /\ ~is_game_over(game)
    /\ returned' = [error |-> "Exception during turn",
                    player |-> get_current_player(game)]
    /\ UNCHANGED <<game, move_times, is_running, is_paused, callbacks, pc, locals,
                   faults, emitted>>
    /\ UNCHANGED aux

NextSync ==
    \/ SyncPlayTurnOver
    \/ \E r \in SyncResponses, rt \in SyncLatencies, v \in Verdicts : SyncPlayTurn(r, rt, v)
    \/ SyncPlayTurnRaises

SpecSync == Init /\ [][NextSync]_vars

(* ------------------------------ the server ----------------------------- *)
\* start_llm_game installs all three callbacks on the orchestrator it creates
InitServer == Init /\ callbacks = AllCallbacks

\* pc is "reset" once the orchestrator has left the server's registry.
\* what the server sends to every websocket; between two steps of the coroutine
\* emitted collects these messages behind the coroutine's own
broadcast_game_state(g) ==
    <<[chan |-> "state", game_over |-> is_game_over(g),
       result |-> get_game_state(g).result, move_count |-> Len(g.game_history)]>>

broadcast_log(message, level) == <<[chan |-> "log", msg |-> message, level |-> level]>>

\* the messages of the lifecycle endpoints among the notifications
EndpointLogs(em) ==
    SelectSeq(em, LAMBDA e : /\ e.chan = "log"
                             /\ e.msg \in {"Game paused", "Game resumed", "Game stopped"})

\* POST /api/game/move/{move} while the server has an orchestrator: its game is
\* the object start_llm_game gave the orchestrator; the move is made with the
\* default move_time 0.0
api_make_move ==
    /\ pc \notin {"idle", "reset"}
    /\ \E move \in AllMoves \cup {"xyz123"} :
          LET made == make_move(game, move, 0) IN
          /\ made.ok => Len(game.board) < MaxPlies
          /\ game' = made.game
          /\ emitted' = IF made.ok THEN emitted \o broadcast_game_state(made.game)
                        ELSE emitted
    /\ UNCHANGED <<move_times, is_running, is_paused, callbacks, pc, locals, faults,
                   returned>>
    /\ UNCHANGED aux

\* POST /api/game/pause
pause_game ==
    /\ pc \notin {"idle", "reset"}
    /\ Len(EndpointLogs(emitted)) < MaxBroadcasts
    /\ is_paused' = TRUE
    /\ emitted' = emitted \o broadcast_log("Game paused", "info")
    /\ UNCHANGED <<game, move_times, is_running, callbacks, pc, locals, faults,
                   returned>>
    /\ UNCHANGED aux

\* POST /api/game/resume
resume_game ==
    /\ pc \notin {"idle", "reset"}
    /\ Len(EndpointLogs(emitted)) < MaxBroadcasts
    /\ is_paused' = FALSE
    /\ emitted' = emitted \o broadcast_log("Game resumed", "info")
    /\ UNCHANGED <<game, move_times, is_running, callbacks, pc, locals, faults,
                   returned>>
    /\ UNCHANGED aux

\* POST /api/game/stop: stop(), then the task of play_game is cancelled where it
\* waits, unless it is done
stop_game ==
    /\ pc \notin {"idle", "reset"}
    /\ Len(EndpointLogs(emitted)) < MaxBroadcasts
    /\ is_running' = FALSE
    /\ is_paused' = FALSE
    /\ pc' = IF NoCoroutine THEN pc ELSE "cancelled"
    /\ emitted' = emitted \o broadcast_log("Game stopped", "info")
    /\ UNCHANGED <<game, move_times, callbacks, locals, faults, returned>>
    /\ UNCHANGED aux

\* POST /api/game/reset: stop(), the task of play_game is cancelled, the
\* orchestrator is dropped from the registry and the game is reset in place
api_reset_game ==
    /\ pc \notin {"idle", "reset"}
    /\ is_running' = FALSE
    /\ is_paused' = FALSE
    /\ pc' = "reset"
    /\ game' = reset_game(game)
    /\ emitted' = emitted \o broadcast_game_state(reset_game(game))
    /\ UNCHANGED <<move_times, callbacks, locals, faults, returned>>
    /\ UNCHANGED aux

NextServer ==
    \/ PlayGame
    \/ NextTurn
    \/ PauseTick
    \/ AgentReply
    \/ AgentRaise
    \/ CorrectiveReply
    \/ Backoff
    \/ api_make_move
    \/ pause_game
    \/ resume_game
    \/ stop_game
    \/ api_reset_game

SpecServer == InitServer /\ [][NextServer]_vars

(* ------------------- the server's task registry ------------------------ *)
\* everything but the registries of the server
session == <<game, move_times, is_running, is_paused, callbacks, pc, locals, faults,
             emitted, returned, game_log, active_connections, broadcasts, websockets>>

\* stop() on the orchestrator whose task is j makes that play_game leave its loop,
\* and cancel() makes it raise at the await it is suspended in: either way the
\* task is on its way out
Ending(ts, j) ==
    IF j # NoEntry /\ ts[j] = "running" THEN [ts EXCEPT ![j] = "ending"] ELSE ts

\* lines 225-247 of start_llm_game: the old orchestrator is stopped and dropped,
\* a new game and orchestrator are registered; the request is then suspended in
\* setup_agents or in a broadcast
RegisterOrchestrator(i, ts, gt) ==
    /\ tasks' = Ending(ts, orchestrators)
    /\ orchestrators' = i
    /\ game_tasks' = gt
    /\ handlers' = [handlers EXCEPT ![i] = [at |-> "setup"]]

\* start_llm_game runs to its first suspension: with a task registered it stops
\* the orchestrator (a KeyError when none is registered), cancels the task and
\* waits for it
StartBegin(i) ==
    /\ handlers[i].at = "new"
    /\ IF game_tasks # NoEntry
       THEN IF orchestrators = NoEntry
            THEN /\ handlers' = [handlers EXCEPT ![i] = [at |-> "failed"]]
                 /\ UNCHANGED <<orchestrators, game_tasks, tasks>>
            ELSE /\ tasks' = Ending(Ending(tasks, orchestrators), game_tasks)
                 /\ handlers' = [handlers EXCEPT ![i] = [at |-> "wait", task |-> game_tasks]]
                 /\ UNCHANGED <<orchestrators, game_tasks>>
       ELSE RegisterOrchestrator(i, tasks, game_tasks)
    /\ UNCHANGED session

\* the task waited for is done: del game_tasks[game_id] at line 223, a KeyError
\* when the registry has no entry any more
StartAfterWait(i) ==
    /\ handlers[i].at = "wait"
    /\ tasks[handlers[i].task] = "done"
    /\ IF game_tasks = NoEntry
       THEN /\ handlers' = [handlers EXCEPT ![i] = [at |-> "failed"]]
            /\ UNCHANGED <<orchestrators, game_tasks, tasks>>
       ELSE RegisterOrchestrator(i, tasks, NoEntry)
    /\ UNCHANGED session

\* setup_agents and the broadcasts are over: the task of play_game is created and
\* registered (lines 309-317), or setup_agents raised
StartFinish(i) ==
    /\ handlers[i].at = "setup"
    /\ \/ /\ tasks' = [tasks EXCEPT ![i] = "running"]
          /\ game_tasks' = i
          /\ handlers' = [handlers EXCEPT ![i] = [at |-> "ok"]]
       \/ /\ handlers' = [handlers EXCEPT ![i] = [at |-> "failed"]]
          /\ UNCHANGED <<game_tasks, tasks>>
    /\ UNCHANGED orchestrators
    /\ UNCHANGED session

\* a play_game task ends (the game is over, or it was stopped or cancelled); its
\* done callback cleanup_game_task drops it from the registry if it is there
TaskDone(j) ==
    /\ tasks[j] \in {"running", "ending"}
    /\ tasks' = [tasks EXCEPT ![j] = "done"]
    /\ game_tasks' = IF game_tasks = j THEN NoEntry ELSE game_tasks
    /\ UNCHANGED <<orchestrators, handlers>>
    /\ UNCHANGED session

\* POST /api/game/stop as far as the registries go
StopRequest ==
    /\ orchestrators # NoEntry
    /\ tasks' = Ending(Ending(tasks, orchestrators), game_tasks)
    /\ UNCHANGED <<orchestrators, game_tasks, handlers>>
    /\ UNCHANGED session

\* reset_game runs to its first suspension, or to its end when no task is
\* registered
ResetBegin ==
    /\ handlers[ResetRequest].at = "new"
    /\ IF game_tasks # NoEntry
       THEN /\ tasks' = Ending(Ending(tasks, orchestrators), game_tasks)
            /\ handlers' = [handlers EXCEPT ![ResetRequest] =
                               [at |-> "wait", task |-> game_tasks]]
            /\ UNCHANGED <<orchestrators, game_tasks>>
       ELSE /\ tasks' = Ending(tasks, orchestrators)
            /\ orchestrators' = NoEntry
            /\ UNCHANGED <<game_tasks, handlers>>
    /\ UNCHANGED session

\* the task reset_game waited for is done: del game_tasks[game_id] at line 151,
\* a KeyError when the registry has no entry any more
ResetAfterWait ==
    /\ handlers[ResetRequest].at = "wait"
    /\ tasks[handlers[ResetRequest].task] = "done"
    /\ handlers' = [handlers EXCEPT ![ResetRequest] = NewRequest]
    /\ IF game_tasks = NoEntry
       THEN UNCHANGED <<orchestrators, game_tasks, tasks>>
       ELSE /\ game_tasks' = NoEntry
            /\ orchestrators' = NoEntry
            /\ UNCHANGED tasks
    /\ UNCHANGED session

NextTasks ==
    \/ \E i \in StartRequests : StartBegin(i)
    \/ \E i \in StartRequests : StartAfterWait(i)
    \/ \E i \in StartRequests : StartFinish(i)
    \/ \E j \in StartRequests : TaskDone(j)
    \/ StopRequest
    \/ ResetBegin
    \/ ResetAfterWait

SpecTasks == Init /\ [][NextTasks]_vars

(* ----------------- the server's connection registry -------------------- *)
\* everything but the connection registry, its websockets and the broadcasts
backstage == <<game, move_times, is_running, is_paused, callbacks, pc, locals, faults,
               emitted, returned, game_log, orchestrators, game_tasks, tasks, handlers>>

\* active_connections is a dict: its entries in insertion order, a deleted entry
\* leaving an empty slot behind
Deleted == 0
InRegistry(d, c) == \E k \in 1..Len(d) : d[k] = c
DictLen(d) == Cardinality({k \in 1..Len(d) : d[k] # Deleted})
DelItem(d, c) == [k \in 1..Len(d) |-> IF d[k] = c THEN Deleted ELSE d[k]]

\* the slot a dict iterator that is at slot pos yields next, 0 at the end
NextSlot(d, pos) ==
    LET later == {k \in 1..Len(d) : k > pos /\ d[k] # Deleted}
    IN  IF later = {} THEN 0 ELSE CHOOSE k \in later : \A m \in later : k <= m

\* for connection_id in disconnected: del active_connections[connection_id];
\* a del of a missing key raises KeyError and ends the loop
RECURSIVE CleanUp(_, _)
CleanUp(d, disconnected) ==
    IF disconnected = <<>> THEN [registry |-> d, at |-> "done"]
    ELSE IF ~InRegistry(d, Head(disconnected))
         THEN [registry |-> d, at |-> "KeyError"]
         ELSE CleanUp(DelItem(d, Head(disconnected)), Tail(disconnected))

\* the for statement asks the iterator for its next item: RuntimeError when the
\* dict has changed size since the loop began, the next send_text when there is
\* an item, the clean-up loop at the end
Iterate(b, size, pos, disconnected) ==
    IF DictLen(active_connections) # size
    THEN /\ broadcasts' = [broadcasts EXCEPT ![b] = [at |-> "RuntimeError"]]
         /\ UNCHANGED active_connections
    ELSE LET k == NextSlot(active_connections, pos) IN
         IF k # 0
         THEN /\ broadcasts' = [broadcasts EXCEPT ![b] =
                     [at |-> "send_text", size |-> size, pos |-> k,
                      connection_id |-> active_connections[k],
                      disconnected |-> disconnected]]
              /\ UNCHANGED active_connections
         ELSE LET r == CleanUp(active_connections, disconnected) IN
              /\ broadcasts' = [broadcasts EXCEPT ![b] = [at |-> r.at]]
              /\ active_connections' = r.registry

\* a websocket connects: it is accepted and registered (line 81); with a game in
\* games the endpoint then sends it the game state
Connect(c) ==
    /\ websockets[c].at = "new"
    /\ active_connections' = Append(active_connections, c)
    /\ \E greeting \in BOOLEAN :
          websockets' = [websockets EXCEPT ![c].at =
                            IF greeting THEN "send_text" ELSE "sleep"]
    /\ UNCHANGED broadcasts
    /\ UNCHANGED backstage

\* the send of the game state is over: the endpoint goes to its sleep loop, or
\* WebSocketDisconnect was raised and the connection is removed if it is there
Greeted(c) ==
    /\ websockets[c].at = "send_text"
    /\ IF websockets[c].closed
       THEN /\ websockets' = [websockets EXCEPT ![c].at = "ended"]
            /\ active_connections' =
                  IF InRegistry(active_connections, c)
                  THEN DelItem(active_connections, c) ELSE active_connections
       ELSE /\ websockets' = [websockets EXCEPT ![c].at = "sleep"]
            /\ UNCHANGED active_connections
    /\ UNCHANGED broadcasts
    /\ UNCHANGED backstage

\* the browser closes a websocket that had connected
ClientCloses(c) ==
    /\ websockets[c].at # "new"
    /\ ~websockets[c].closed
    /\ websockets' = [websockets EXCEPT ![c].closed = TRUE]
    /\ UNCHANGED <<active_connections, broadcasts>>
    /\ UNCHANGED backstage

\* broadcast_game_state or broadcast_log is called and runs to its first
\* send_text, or to its end when nobody is connected
BroadcastBegin(b) ==
    /\ broadcasts[b].at = "idle"
    /\ Iterate(b, DictLen(active_connections), 0, <<>>)
    /\ UNCHANGED websockets
    /\ UNCHANGED backstage

\* a send_text of a broadcast is over, with WebSocketDisconnect when the
\* websocket is closed, and the loop goes on to its next send_text or to its end
BroadcastResume(b) ==
    /\ broadcasts[b].at = "send_text"
    /\ LET bc == broadcasts[b]
       IN  Iterate(b, bc.size, bc.pos,
                   IF websockets[bc.connection_id].closed
                   THEN Append(bc.disconnected, bc.connection_id)
                   ELSE bc.disconnected)
    /\ UNCHANGED websockets
    /\ UNCHANGED backstage

\* the caller of a broadcast that is over, or that raised, is gone; the next
\* broadcast can begin
BroadcastOver(b) ==
    /\ broadcasts[b].at \in {"done", "RuntimeError", "KeyError"}
    /\ broadcasts' = [broadcasts EXCEPT ![b] = NoBroadcast]
    /\ UNCHANGED <<active_connections, websockets>>
    /\ UNCHANGED backstage

NextBroadcast ==
    \/ \E c \in Clients : Connect(c)
    \/ \E c \in Clients : Greeted(c)
    \/ \E c \in Clients : ClientCloses(c)
    \/ \E b \in Broadcasts : BroadcastBegin(b)
    \/ \E b \in Broadcasts : BroadcastResume(b)
    \/ \E b \in Broadcasts : BroadcastOver(b)

SpecBroadcast == Init /\ [][NextBroadcast]_vars

(* ------------------------------- claims -------------------------------- *)
InFlight == {"agent", "corrective", "backoff"}
Ended == {"done", "crashed"}

\* the state notifications of the last step that carry a winner
FinalStates == SelectSeq(emitted, LAMBDA e : e.chan = "state" /\ "winner" \in DOMAIN e)

\* C1: a turn in which every reply is malformed ends with the retries-exhausted
\* outcome after exactly max_retries send_message calls (corrective prompts
\* included) and leaves the move history as it was.
C1_ExactlyMaxRetriesCalls ==
    [][(/\ pc = "agent"
        /\ attempt = max_retries - 1
        /\ malformed = max_retries - 1
        /\ pc' \in Ended
        /\ IsError(turn_result')
        /\ turn_result'.error = "Max retries reached")
       => (/\ calls = max_retries
           /\ game'.game_history = game.game_history)]_vars

\* C2: after a RESIGN in a play_game run, play_game comes to its end with the
\* lifecycle not running and the winner it resolved and reported is the opponent
\* of the side that resigned.
C2_ResignReportsOpponent ==
    (pc \in Ended /\ game.resigned # None)
        => /\ pc = "done"
           /\ ~is_running
           /\ winner = Other(game.resigned)
           /\ callbacks.state =>
                 /\ FinalStates # <<>>
                 /\ FinalStates[Len(FinalStates)].winner = Other(game.resigned)

\* C3: after REQUEST_DRAW and the opponent's DRAW_ACCEPTED, the session ends with
\* drawAccepted set, the lifecycle not running, and the final state notification
\* reports the winner 'draw'.
C3_AcceptedDrawReported ==
    (pc \in Ended /\ game.draw_accepted)
        => /\ pc = "done"
           /\ ~is_running
           /\ callbacks.state =>
                 /\ FinalStates # <<>>
                 /\ FinalStates[Len(FinalStates)].winner = "draw"

\* C4: with the three callbacks installed, play_game never ends by an unhandled
\* exception.
C4_NoUnhandledException == callbacks = AllCallbacks => pc # "crashed"

\* C5: a turn that got past its entry checks and the pause loop (it invoked the
\* agent) returns a typed outcome, never None.
C5_TypedOutcome ==
    [][(pc \in InFlight /\ pc' \notin InFlight) => turn_result' # NoneResult]_vars

\* C6: once stop() has been called during a turn, that turn changes nothing of the
\* game session: history, position, resigned, drawOffered, drawAccepted.
C6_StoppedTurnDiscarded ==
    [][(pc \in InFlight /\ ~is_running) => game' = game]_vars

\* C7: the game session and the timing ledger change only while the lifecycle is
\* running and not paused.
C7_NoMutationWhilePaused ==
    [][(is_paused \/ ~is_running) => (game' = game /\ move_times' = move_times)]_vars

\* C8: a draw is accepted only if drawOffered is true at the moment the
\* DRAW_ACCEPTED reply is dispatched.
C8_AcceptNeedsPendingOffer ==
    [][(~game.draw_accepted /\ game'.draw_accepted) => game.draw_requested]_vars

\* C9: when a pending draw offer is refused, at whichever attempt, history and side
\* to move are unchanged and the same side is prompted again in the same turn.
C9_RefusalReprompts ==
    [][(/\ pc = "agent"
        /\ game.draw_requested
        /\ ~game'.draw_requested
        /\ game'.game_history = game.game_history)
       => (/\ pc' = "agent"
           /\ current_player' = current_player
           /\ get_current_player(game') = get_current_player(game)
           /\ attempt' <= max_retries - 1)]_vars

\* C10: for every legal move m of the position, if the reply of the first attempt
\* of a turn is m, play_turn returns the move-applied outcome for the side that
\* was to move and the history grows by exactly m.
C10_LegalFirstMoveApplied ==
    [][\A r \in Responses :
          (/\ pc = "agent"
           /\ attempt = 0
           /\ Len(r.words) = 1
           /\ r.words[1] \in get_legal_moves(game)
           /\ Dispatch(r, ResponseTime(r)))
          => (/\ "move" \in DOMAIN turn_result'
              /\ turn_result'.player = get_current_player(game)
              /\ turn_result'.move = r.words[1]
              /\ pc' \notin InFlight
              /\ game'.game_history = Append(game.game_history, r.words[1]))]_vars

\* a first turn answered at once with the legal move e2e4: white's move is applied
C10_Witness ==
    /\ pc = "loop"
    /\ faults = 0
    /\ game.board = <<"e2e4">>
    /\ game.game_history = <<"e2e4">>
    /\ turn_result.player = "white"
    /\ turn_result.move = "e2e4"

\* C11: after a malformed response with attempts remaining, the reply the next
\* attempt interprets is the reply to the request that embeds the invalid raw
\* response: the call in flight when the next attempt waits is that request.
C11_RetryInterpretsCorrectiveReply ==
    [][(pc = "corrective" /\ pc' = "agent")
          => (request'.kind = "invalid_move_prompt"
              /\ request'.invalid_response = request.invalid_response)]_vars

\* is_running is False while the coroutine of play_game is inside its loop; RESIGN
\* and DRAW_ACCEPTED clear it too but leave the loop in the same step, so here it
\* was stop() that cleared it
Stopped == ~is_running /\ pc \in InFlight \cup {"loop", "pause_wait"}

\* C12: once stop() has been called the lifecycle never is Running again and no
\* further agent invocation is made.
C12_StopIsTerminal ==
    [][Stopped => (~is_running' /\ calls' <= calls)]_vars
\* C13: between the snapshot of a turn and the application of the turn's action,
\* the game session is changed by nothing but the orchestrator's handling of the
\* agent's reply.
C13_GameOwnedByTurn ==
    [][(pc \in InFlight /\ game' # game) => AgentReply]_vars

\* C14: a move that passed the snapshot's legal-move filter and that make_move
\* rejects is handled as a malformed response: a warning is logged, and on the
\* final attempt play_turn returns the retries-exhausted outcome.
C14_EngineRejectionIsMalformed ==
    [][\A r \in Responses :
          LET action == Interpret(r, game_state.legal_moves, draw_requested) IN
          (/\ pc = "agent"
           /\ action.kind = "move"
           /\ ~make_move(game, action.move, ResponseTime(r)).ok
           /\ Dispatch(r, ResponseTime(r)))
          => (/\ callbacks.log
                   => \E i \in DOMAIN emitted' : emitted'[i].level = "warning"
              /\ attempt = max_retries - 1
                   => (/\ "error" \in DOMAIN turn_result'
                       /\ turn_result'.error = "Max retries reached"))]_vars
\* C15: a failed agent invocation with attempts remaining is retried after the
\* backoff; a failure on the final attempt makes play_turn return the
\* agent-failure outcome naming the side, play_game does not raise, and the game
\* session is unchanged.
C15_AgentFailureRetriedThenReported ==
    [][/\ (AgentRaise /\ attempt < max_retries - 1)
             => (pc' = "backoff" /\ game' = game)
       /\ Backoff
             => (/\ pc' = "agent"
                 /\ attempt' = attempt + 1
                 /\ calls' = calls + 1
                 /\ game' = game)
       /\ (AgentRaise /\ attempt = max_retries - 1)
             => (/\ pc' = "done"
                 /\ "error" \in DOMAIN turn_result'
                 /\ turn_result'.error = "Exception during turn"
                 /\ turn_result'.player = current_player
                 /\ game' = game)]_vars

\* white's agent failed on each attempt of the first turn
C15_Witness ==
    /\ pc = "done"
    /\ "error" \in DOMAIN turn_result
    /\ turn_result.error = "Exception during turn"
    /\ turn_result.player = "white"
    /\ faults = max_retries
    /\ game = NewGame
    /\ move_times.orchestrator = 0
\* C16: when a turn ends with an error outcome, play_game emits an error-level
\* log event for it and ends with the lifecycle not Running, and from then on no
\* agent invocation is made.
C16_ErrorOutcomeEndsGame ==
    [][/\ (pc \in InFlight /\ pc' \notin InFlight /\ "error" \in DOMAIN turn_result')
             => (/\ pc' = "done"
                 /\ ~is_running'
                 /\ callbacks.log
                      => \E i \in DOMAIN emitted' :
                            /\ emitted'[i].chan = "log"
                            /\ emitted'[i].level = "error"
                            /\ emitted'[i].msg = "Game ended due to error")
       /\ (pc = "done" /\ "error" \in DOMAIN turn_result)
             => (pc' = "done" /\ ~is_running' /\ calls' = calls
                 /\ request' = request)]_vars

\* a turn of malformed answers ended the game, and the log channel was told
C16_Witness ==
    /\ pc = "done"
    /\ "error" \in DOMAIN turn_result
    /\ turn_result.error = "Max retries reached"
    /\ callbacks.log
    /\ ~is_running
    /\ \E i \in DOMAIN emitted : emitted[i].msg = "Game ended due to error"
\* only play_game sets is_running, and it has cleared it when it returns or raises
IdleNotRunning == NoCoroutine => ~is_running

\* C17: play_turn called when the game is terminal or the lifecycle is not Running
\* returns None with no agent invocation, no notification, and no change to the
\* game session, the timing ledger or the lifecycle flags.
C17_EntryReturnIsFrame ==
    /\ [][PlayTurn
            => (/\ returned' = NoneResult
                /\ calls' = calls
                /\ request' = request
                /\ emitted' = emitted
                /\ game' = game
                /\ move_times' = move_times
                /\ is_running' = is_running
                /\ is_paused' = is_paused)]_vars
    /\ []IdleNotRunning

\* play_turn was called on an orchestrator whose play_game never ran
C17_Witness ==
    /\ pc = "idle"
    /\ ~is_running
    /\ returned = NoneResult
    /\ game = NewGame
\* C18: a play_turn that found the lifecycle paused invokes no agent while it
\* stays paused; once resumed its next wake-up starts the turn and invokes the
\* agent; once stopped its next wake-up returns None without invoking the agent.
C18_PausedTurnWaits ==
    [][/\ (pc = "pause_wait" /\ is_paused /\ is_running)
             => (calls' = calls /\ request' = request /\ game' = game
                 /\ pc' = "pause_wait")
       /\ (pc = "pause_wait" /\ ~is_paused /\ is_running /\ PauseTick)
             => (pc' = "agent" /\ calls' = 1 /\ request'.kind = "move_prompt")
       /\ (pc = "pause_wait" /\ ~is_running /\ PauseTick)
             => (/\ turn_result' = NoneResult
                 /\ pc' = "done"
                 /\ calls' = calls
                 /\ request' = request
                 /\ game' = game)]_vars

\* play_game was started paused and stopped before the first agent call
C18_Witness ==
    /\ pc = "done"
    /\ turn_result = NoneResult
    /\ move_count = 0
    /\ game = NewGame
    /\ faults = 0
    /\ move_times.orchestrator = 0
\* C19: winner determination is defined for every terminal game: the opponent of
\* the side that resigned, 'draw' for an accepted draw and for the engine's
\* drawing conditions, the side that just moved on checkmate; it is undefined
\* only for a game that is not terminal.
C19_WinnerDefinedWhenTerminal ==
    LET w == _get_winner(game)
        result == get_game_result(game)
    IN  IF ~is_game_over(game) THEN w = None
        ELSE /\ w # None
             /\ game.resigned # None => w = Other(game.resigned)
             /\ (game.resigned = None /\ game.draw_accepted) => w = "draw"
             /\ result = "checkmate" => w = Other(get_current_player(game))
             /\ result \in {"stalemate", "insufficient_material",
                            "seventyfive_moves", "fivefold_repetition"} => w = "draw"

\* C20: when play_game has ended on a terminal game, a final state notification
\* with the winner and the result reason has been emitted, and no state
\* notification carries an undefined winner.
C20_FinalStateCarriesWinner ==
    /\ \A i \in DOMAIN emitted :
          (emitted[i].chan = "state" /\ "winner" \in DOMAIN emitted[i])
             => emitted[i].winner # None
    /\ (pc \in Ended /\ is_game_over(game) /\ callbacks.state)
          => (/\ FinalStates # <<>>
              /\ FinalStates[Len(FinalStates)].winner # None
              /\ FinalStates[Len(FinalStates)].result # None)
\* C21: right after a move has been applied, and right after a DRAW_ACCEPTED or
\* DRAW_REFUSED answer to a draw offer has been resolved, draw_requested of the
\* game is false.
C21_DrawOfferCleared ==
    [][\A r \in Responses :
          LET action == Interpret(r, game_state.legal_moves, draw_requested) IN
          (/\ pc = "agent"
           /\ action.kind \in {"move", "DRAW_ACCEPTED", "DRAW_REFUSED"}
           /\ action.kind = "move" => make_move(game, action.move, ResponseTime(r)).ok
           /\ Dispatch(r, ResponseTime(r)))
          => ~game'.draw_requested]_vars
\* C22: a REQUEST_DRAW answer sets draw_requested, passes the turn to the
\* opponent, leaves the piece placement and the move history as they were, and
\* play_turn returns the draw-offer outcome for the offering side.
C22_DrawOfferPassesTurn ==
    [][\A r \in Responses :
          (/\ pc = "agent"
           /\ Interpret(r, game_state.legal_moves, draw_requested).kind = "REQUEST_DRAW"
           /\ Dispatch(r, ResponseTime(r)))
          => (/\ game'.draw_requested
              /\ get_current_player(game') = Other(get_current_player(game))
              /\ get_board_fen(game').placement = get_board_fen(game).placement
              /\ game'.game_history = game.game_history
              /\ turn_result' = [player |-> get_current_player(game),
                                 action |-> "draw_offer",
                                 response_time |-> ResponseTime(r)]
              /\ pc' \notin InFlight)]_vars

\* white offered a draw on the first turn: black is to move on the same position
C22_Witness ==
    /\ pc = "loop"
    /\ game.board = <<NullMove>>
    /\ game.draw_requested
    /\ game.game_history = <<>>
    /\ "action" \in DOMAIN turn_result
    /\ turn_result.action = "draw_offer"
    /\ turn_result.player = "white"
    /\ get_current_player(game) = "black"
\* C23: in every reachable state of a session driven by play_game, at most one
\* of resigned and draw_accepted is set.
C23_ResignedXorDrawAccepted ==
    ~(game.resigned # None /\ game.draw_accepted)

\* black resigned while white's draw offer was pending, and the game ended there
C23_Witness ==
    /\ pc \in Ended
    /\ game.resigned = "black"
    /\ game.draw_requested
    /\ ~game.draw_accepted
\* a turn result that completes a turn: a move applied or a draw offered
Completed(res) ==
    /\ "player" \in DOMAIN res
    /\ "error" \notin DOMAIN res
    /\ "move" \in DOMAIN res \/ res.action = "draw_offer"

\* C24: play_game runs one turn at a time, and the sides of consecutive completed
\* turns alternate, starting with the side to move of the initial position.
C24_SidesAlternate ==
    [][/\ (pc \in InFlight /\ pc' \notin InFlight /\ Completed(turn_result'))
             => turn_result'.player =
                   IF Completed(turn_result) THEN Other(turn_result.player)
                   ELSE get_current_player(NewGame)
       /\ (pc \in InFlight /\ pc' \in InFlight)
             => (current_player' = current_player /\ move_count' = move_count)]_vars

\* two turns completed: white's, then black's
C24_Witness ==
    /\ pc = "loop"
    /\ move_count = 2
    /\ Len(game.board) = 2
    /\ Completed(turn_result)
    /\ turn_result.player = "black"
\* C25: the move notification and the state notification of an applied move are
\* emitted by the step that applies it: after the turn's entry checks (the turn
\* is waiting for its agent) and before any agent is invoked for the next turn.
C25_MoveNotifiedWithinTurn ==
    [][game'.game_history # game.game_history
          => (/\ pc = "agent"
              /\ pc' \notin InFlight
              /\ calls' = 0
              /\ \E i, j \in DOMAIN emitted' :
                    /\ i < j
                    /\ emitted'[i].chan = "move"
                    /\ emitted'[i].move = LastMove(game'.game_history)
                    /\ emitted'[i].player = current_player
                    /\ emitted'[j].chan = "state"
                    /\ emitted'[j].move_count = Len(game'.game_history))]_vars

\* white's e2e4 was applied and notified, and play_game is between two turns
C25_Witness ==
    /\ pc = "loop"
    /\ game.game_history = <<"e2e4">>
    /\ \E i \in DOMAIN emitted :
          emitted[i].chan = "move" /\ emitted[i].move = "e2e4"

\* C26: play_game completes at most max_moves turns, and no agent call is in
\* flight or about to be made once move_count has reached the ceiling.
C26_TurnCeiling ==
    /\ move_count <= max_moves
    /\ pc \in InFlight \cup {"pause_wait"} => move_count < max_moves

\* the two hundredth draw offer in a row ended play_game
C26_Witness ==
    /\ pc = "done"
    /\ move_count = max_moves
    /\ Len(game.board) = max_moves
    /\ game.game_history = <<>>

C28_PauseResumeIdempotent ==
    [][/\ (pause_game /\ is_paused)
            => (is_running' = is_running /\ is_paused' = is_paused /\ emitted' = emitted)
       /\ (resume_game /\ ~is_paused)
            => (is_running' = is_running /\ is_paused' = is_paused /\ emitted' = emitted)
      ]_vars

\* the notifications a step sends: the requests of the server add theirs to
\* emitted, a step of the coroutine replaces emitted by its own
Sent ==
    IF api_make_move \/ pause_game \/ resume_game \/ stop_game \/ api_reset_game
    THEN SubSeq(emitted', Len(emitted) + 1, Len(emitted'))
    ELSE emitted'

\* a step that applies a move, offers, accepts or refuses a draw, resigns, ends a
\* turn with an error outcome, pauses, resumes or stops
Transition ==
    \/ game'.game_history # game.game_history
    \/ game'.draw_requested # game.draw_requested
    \/ game'.draw_accepted # game.draw_accepted
    \/ game'.resigned # game.resigned
    \/ IsError(turn_result') /\ turn_result' # turn_result
    \/ is_paused' # is_paused
    \/ is_running /\ ~is_running'

\* C29: every transition of the session sends a log event with a severity level,
\* and sends it before any state notification of the same transition.
C29_TransitionsLogged ==
    [][Transition
          => \E i \in DOMAIN Sent :
                /\ Sent[i].chan = "log"
                /\ Sent[i].level \in {"info", "warning", "error"}
                /\ \A j \in DOMAIN Sent : Sent[j].chan = "state" => i < j]_vars

\* the raw texts the interpretation is compared on: the answers of the agents, a
\* keyword in mixed case, a keyword followed by more text, and blank text
RawTexts ==
    Responses \cup {Text(<<"Draw_Accepted">>), Text(<<"RESIGN", "xyz123">>), Padded(<<>>)}

\* C30: the branch play_turn takes is determined by the raw text, the legal moves
\* and the draw flag. A text that is, surrounding whitespace aside, one keyword
\* in any letter case takes the keyword's branch (the two draw answers only
\* while a draw is offered, and the malformed branch otherwise); any other text
\* whose first word in lower case is a legal move takes the move branch with
\* that move, whatever follows the word; every other text, the empty one
\* included, is malformed.
C30_InterpretationTable ==
    \A r \in RawTexts, draw \in BOOLEAN :
       LET legal == game_state.legal_moves
           got == Interpret(r, legal, draw)
           IsKeyword(k) == Len(r.words) = 1 /\ StrUpper(r.words[1]) = k
       IN  /\ IsKeyword("REQUEST_DRAW") => got = [kind |-> "REQUEST_DRAW"]
           /\ IsKeyword("RESIGN") => got = [kind |-> "RESIGN"]
           /\ IsKeyword("DRAW_ACCEPTED")
                 => got.kind = IF draw THEN "DRAW_ACCEPTED" ELSE "invalid"
           /\ IsKeyword("DRAW_REFUSED")
                 => got.kind = IF draw THEN "DRAW_REFUSED" ELSE "invalid"
           /\ (\A k \in Keywords : ~IsKeyword(k))
                 => IF r.words # <<>> /\ StrLower(r.words[1]) \in legal
                    THEN got = [kind |-> "move", move |-> StrLower(r.words[1])]
                    ELSE got.kind = "invalid"

\* white's answer " E2E4 xyz123 " was taken for the move e2e4, and black's
\* answer " resign " for a resignation
C30_Witness ==
    /\ game.game_history = <<"e2e4">>
    /\ move_times.white = <<2>>
    /\ game.resigned = "black"
    /\ "action" \in DOMAIN turn_result
    /\ turn_result.action = "resign"
    /\ turn_result.response_time = 2

C32_OverheadNeverDecreases ==
    [][move_times'.orchestrator >= move_times.orchestrator]_vars

\* C33: make_move returns True exactly for a legal move of the position; the
\* move is then on the board, the other side is to move, and the move and its
\* time are the new last entries of game_history and move_times. For any other
\* text it returns False and the game is as it was.
C33_MakeMoveContract ==
    [][\A m \in MoveTexts, t \in MoveTimes :
          CallMakeMove(m, t)
             => /\ returned'.ok <=> (m \in get_legal_moves(game))
                /\ returned'.ok
                     => /\ get_board_fen(game').placement
                              = Append(get_board_fen(game).placement, m)
                        /\ get_current_player(game') = Other(get_current_player(game))
                        /\ game'.game_history = Append(game.game_history, m)
                        /\ game'.move_times = Append(game.move_times, t)
                /\ ~returned'.ok => game' = game]_vars

\* e2e4 and e7e5 were made, as in test_chess.py
C33_Witness ==
    /\ returned = Called("make_move", TRUE, make_move(NewGame, "e2e4", 0).game)
    /\ game.game_history = <<"e2e4", "e7e5">>
    /\ game.move_times = <<0, 0>>
    /\ get_current_player(game) = "white"

\* C34: undo_move right after a successful make_move returns True and gives back
\* the position, the side to move, game_history and move_times of the game the
\* move was made on; undo_move with an empty history returns False and changes
\* nothing.
C34_UndoRestores ==
    [][CallUndoMove
          => /\ ("call" \in DOMAIN returned /\ returned.call = "make_move" /\ returned.ok)
                   => /\ returned'.ok
                      /\ get_board_fen(game') = get_board_fen(returned.before)
                      /\ get_current_player(game') = get_current_player(returned.before)
                      /\ game'.game_history = returned.before.game_history
                      /\ game'.move_times = returned.before.move_times
             /\ game.game_history = <<>> => (~returned'.ok /\ game' = game)]_vars

\* e2e4 and e7e5 were made and the second was undone, as in test_chess.py
C34_Witness ==
    /\ "call" \in DOMAIN returned
    /\ returned.call = "undo_move"
    /\ returned.ok
    /\ returned.before.game_history = <<"e2e4", "e7e5">>
    /\ game.game_history = <<"e2e4">>
    /\ game.board = <<"e2e4">>

\* C39: game_history and move_times have the same length, and game_history is
\* the sequence of the real moves on the board's stack.
C39_HistoryMatchesBoard ==
    /\ Len(game.game_history) = Len(game.move_times)
    /\ game.game_history = Real(game.board)

\* C35: a play_turn of the synchronous orchestrator returns None exactly when the
\* game is over at entry; an error record leaves game, timing lists and game log
\* as they were; a turn record names the side that was to move, and then one
\* move has been applied, the other side is to move, and the record is the new
\* last entry of the game log.
C35_SyncTurnContract ==
    [][(SyncPlayTurnOver \/ SyncPlayTurnRaises
          \/ \E r \in SyncResponses, rt \in SyncLatencies, v \in Verdicts :
                SyncPlayTurn(r, rt, v))
          => /\ (returned' = NoneResult) <=> is_game_over(game)
             /\ IsError(returned')
                   => (game' = game /\ move_times' = move_times /\ game_log' = game_log)
             /\ (returned' # NoneResult /\ ~IsError(returned'))
                   => /\ returned'.player = get_current_player(game)
                      /\ Len(game'.game_history) = Len(game.game_history) + 1
                      /\ Len(game'.board) = Len(game.board) + 1
                      /\ game'.game_history[Len(game'.game_history)] = returned'.move
                      /\ get_current_player(game') = Other(get_current_player(game))
                      /\ game_log' = Append(game_log, returned')]_vars

\* white's turn, then an error, then black's turn, which ended the game: the
\* next play_turn returned None
C35_Witness ==
    /\ returned = NoneResult
    /\ Len(game_log) = 2
    /\ game_log[1].player = "white"
    /\ game_log[2].player = "black"
    /\ game.game_history = <<game_log[1].move, game_log[2].move>>
    /\ move_times.white = <<game_log[1].response_time>>

\* C36: in the synchronous orchestrator a legal move of the position that the
\* agent returns in UCI format, and that the referee does not reject, is applied.
C36_LegalMoveApplied ==
    [][\A r \in SyncResponses, rt \in SyncLatencies, v \in Verdicts :
          (/\ SyncPlayTurn(r, rt, v)
           /\ Len(r.words) = 1
           /\ ~r.pad
           /\ r.words[1] \in get_legal_moves(game)
           /\ v # "INVALID")
          => game'.game_history = Append(game.game_history, r.words[1])]_vars

\* C37: the step that applies a move ends the turn with the move-applied outcome
\* for that move: no agent call is in flight or about to be made for the turn,
\* whatever the callbacks do.
C37_MoveEndsTurn ==
    [][game'.game_history # game.game_history
          => /\ pc' \notin InFlight
             /\ "move" \in DOMAIN turn_result'
             /\ turn_result'.move = LastMove(game'.game_history)]_vars

\* C38: at most one play_game task is running, and a running task is the one in
\* the task registry.
C38_OneRegisteredTask ==
    \A i \in StartRequests :
       tasks[i] = "running"
          => /\ game_tasks = i
             /\ \A j \in StartRequests : tasks[j] = "running" => j = i

\* C40: no broadcast ends in an error: the connection registry does not change
\* in size while a broadcast iterates over it (RuntimeError), and no connection
\* is deleted from it twice (KeyError).
C40_BroadcastCompletes ==
    \A b \in Broadcasts : broadcasts[b].at \notin {"RuntimeError", "KeyError"}

====
